---- MODULE Spec2Model ----
(***************************************************************************)
(* Model of saas_skeleton_rate_limit.py: multi-tenant Org/User/APIKey      *)
(* store, JWT login, API-key create/list/revoke, dual authentication       *)
(* (x-api-key or Bearer JWT) and the Redis fixed-window rate limiter.      *)
(*                                                                         *)
(* Conventions.  Time is the integer number of seconds of the server       *)
(* clock.  A plaintext key is a sequence of one-character strings.  A      *)
(* Python Optional is a sequence: <<>> is None, <<v>> is the value v.      *)
(* A scope string is the sequence of its comma-free pieces, so that        *)
(* ",".join and .split(",") are modelled by what they do.  Row ids are     *)
(* positions in the table's sequence (rows are never deleted).  The        *)
(* columns name and created_at are left out: no handler branches on them.  *)
(*                                                                         *)
(* Each endpoint is an operator from the store and the request to the      *)
(* response and the store it leaves; the endpoint's action applies it.     *)
(***************************************************************************)
EXTENDS Integers, Sequences, FiniteSets, TLC

VARIABLES
    now,        \* server clock, seconds
    ticks,      \* number of clock advances so far
    orgs,       \* table orgs: sequence of [name]
    users,      \* table users
    api_keys,   \* table api_keys
    issued,     \* tokens create_access_token has signed
    drawn,      \* number of distinct values secrets.token_hex has returned
    counters,   \* Redis: key -> [val, exp]
    thr,        \* the handlers in flight (concurrent specifications)
    tally       \* what the handlers of the current window returned (same)

vars == <<now, ticks, orgs, users, api_keys, issued, drawn, counters, thr, tally>>

-----------------------------------------------------------------------------
\* Bounds of the model
MaxOrgs == 3

MaxTokens == 2

MaxKeys == 2

MaxTicks == 1

\* keys in the specification of POST /generate
MaxGateKeys == 1

\* how far past a quota or a rate limit the specifications that study it go
MaxOver == 1

\* calls in one second by a user whose limit is not being studied
MaxCalls == 2

\* the longest secret given to mask_key on its own
MaxSecretLen == 11

-----------------------------------------------------------------------------
\* Config (lines 41-61)
ACCESS_TOKEN_EXPIRE_MINUTES == 60

QUOTA_NORMAL == 10

QUOTA_VIP == 100

QUOTA_ENTERPRISE == 0

QUOTA_DEFAULT == 10

UserTypeEnum == {"NORMAL", "VIP", "ENTERPRISE"}

API_KEY_QUOTA_get(user_type) ==
    CASE user_type = "NORMAL" -> QUOTA_NORMAL
      [] user_type = "VIP" -> QUOTA_VIP
      [] user_type = "ENTERPRISE" -> QUOTA_ENTERPRISE
      [] OTHER -> QUOTA_DEFAULT

\* A scope string as the sequence of its comma-free pieces.
S(piece) == <<piece>>

DEFAULT_SCOPES_get(user_type) ==
    CASE user_type = "NORMAL" -> <<S("generate:text")>>
      [] user_type = "VIP" -> <<S("generate:text"), S("generate:image"), S("tts")>>
      [] user_type = "ENTERPRISE" ->
            <<S("generate:text"), S("generate:image"), S("tts"),
              S("generate:video"), S("admin")>>
      [] OTHER -> <<S("generate:text")>>

-----------------------------------------------------------------------------
\* Utilities (lines 123-154)

None == <<>>

Some(v) == <<v>>

HexDigits == <<"0","1","2","3","4","5","6","7","8","9","a","b","c","d","e","f">>

\* The hexadecimal numeral of n, len digits wide.
RECURSIVE HexOf(_, _)
HexOf(n, len) ==
    IF len = 0 THEN <<>>
    ELSE Append(HexOf(n \div 16, len - 1), HexDigits[(n % 16) + 1])

\* secrets.token_hex(nbytes): 2*nbytes hex digits.  The n-th distinct value
\* the generator returns is named by the numeral of n.
token_hex(n, nbytes) == HexOf(n, 2 * nbytes)

gen_api_key(n, prefix, length) == prefix \o <<"-">> \o token_hex(n, length \div 2)

\* line 327: gen_api_key(prefix="sk", length=32), tabulated
ClearKeys == [n \in 0..31 |-> gen_api_key(n, <<"s", "k">>, 32)]

ClearKey(n) == ClearKeys[n]

\* Mutant: nothing is masked.
mask_key_Unmasked(key) == key

\* Mutant: the length test is off by one.
mask_key_ShortAtNine(key) ==
    IF key = <<>> \/ Len(key) < 9 THEN key
    ELSE SubSeq(key, 1, 5) \o <<"*", "*", "*", "*">> \o SubSeq(key, Len(key) - 3, Len(key))

mask_key(key) ==
    IF key = <<>> \/ Len(key) <= 9 THEN key
    ELSE SubSeq(key, 1, 5) \o <<"*", "*", "*", "*">> \o SubSeq(key, Len(key) - 3, Len(key))

\* HMAC-SHA256 under the server's API_KEY_HASH_SECRET: injective on keys, and
\* never equal to a key.
hash_key_hmac(key) == <<"hmac-sha256", "API_KEY_HASH_SECRET", key>>

\* passlib bcrypt
get_password_hash(pw) == <<"bcrypt", pw>>

verify_password(plain, hashed) == hashed = <<"bcrypt", plain>>

\* str(int) and int(str)
Str(n) == <<"str", n>>

ToInt(s) == s[2]

ServerSig == "HS256:SECRET_KEY"

\* create_access_token: the payload with iat and exp, signed by the server.
create_access_token(data, t, expires_minutes) ==
    [sub |-> data.sub, org |-> data.org, user_type |-> data.user_type,
     iat |-> t, exp |-> t + 60 * expires_minutes, sig |-> ServerSig]

\* decode_access_token: jose's jwt.decode checks the signature, then rejects
\* a token whose exp is before the current time.
TokenDecodes(token, t) ==
    /\ token.sig = ServerSig
    /\ ~(token.exp < t)

\* ",".join(scopes)
RECURSIVE Join(_)
Join(list) ==
    IF list = <<>> THEN <<"">>
    ELSE IF Len(list) = 1 THEN list[1]
    ELSE list[1] \o Join(Tail(list))

\* a.scopes.split(",") if a.scopes else []
Split(str) == IF str = <<"">> THEN <<>> ELSE str

Range(s) == {s[i] : i \in DOMAIN s}

-----------------------------------------------------------------------------
\* Tables (lines 79-116) and the state after startup() (lines 232-249)

Org(name) == [name |-> name]

User(org_id, username, hashed_password, is_admin, user_type) ==
    [org_id |-> org_id, username |-> username, hashed_password |-> hashed_password,
     is_admin |-> is_admin, user_type |-> user_type]

APIKey(org_id, user_id, key_hash, key_preview, scopes, expires_at) ==
    [org_id |-> org_id, user_id |-> user_id, key_hash |-> key_hash,
     key_preview |-> key_preview, scopes |-> scopes, revoked |-> FALSE,
     expires_at |-> expires_at]

Min(set) == CHOOSE x \in set : \A y \in set : x <= y

\* db.query(T).filter_by(...).first(): the row with the least id, 0 for None
First(rows) == IF rows = {} THEN 0 ELSE Min(rows)

OrgByName(name) == First({i \in DOMAIN orgs : orgs[i].name = name})

UserByName(username) == First({i \in DOMAIN users : users[i].username = username})

UserById(id) == First({i \in DOMAIN users : i = id})

Startup ==
    /\ orgs = <<Org("demo_org")>>
    /\ users = <<User(1, "admin", get_password_hash("password"), TRUE, "ENTERPRISE")>>
    /\ api_keys = <<>>
    /\ issued = {}
    /\ drawn = 0
    /\ counters = <<>>
    /\ now = 0
    /\ ticks = 0

Init ==
    /\ Startup
    /\ thr = <<>>
    /\ tally = <<>>

-----------------------------------------------------------------------------
\* Auth dependency (lines 281-312)

AuthErr(detail) ==
    [status |-> 401, detail |-> detail, user |-> 0, auth_type |-> "", api |-> 0]

AuthOk(user, auth_type, api) ==
    [status |-> 200, detail |-> "", user |-> user, auth_type |-> auth_type, api |-> api]

Lower(scheme) == IF scheme = "Bearer" THEN "bearer" ELSE scheme

\* Mutant: the lookup forgets the revoked filter.
KeyMatches_AnyFlag(k, key_h) == k.key_hash = key_h

\* line 285: filter_by(key_hash=key_h, revoked=False)
KeyMatches(k, key_h) == k.key_hash = key_h /\ k.revoked = FALSE

\* Mutant: the comparison is turned round.
KeyExpired_Reversed(k, t) == k.expires_at # None /\ k.expires_at[1] > t

\* Mutant: the key is refused from the instant of its expiry.
KeyExpired_AtExpiry(k, t) == k.expires_at # None /\ k.expires_at[1] <= t

\* line 288: api.expires_at and api.expires_at < datetime.utcnow()
KeyExpired(k, t) == k.expires_at # None /\ k.expires_at[1] < t

\* Mutant: the organization in the token is not compared.
OrgMismatch_Ignored(user_org_id, token_org_id) == FALSE

\* line 309
OrgMismatch(user_org_id, token_org_id) == user_org_id # token_org_id

KeyPath(x_api_key) ==
    LET key_h == hash_key_hmac(x_api_key)
        api == First({i \in DOMAIN api_keys : KeyMatches(api_keys[i], key_h)})
    IN  IF api = 0 THEN AuthErr("Invalid API key")
        ELSE IF KeyExpired(api_keys[api], now) THEN AuthErr("API key expired")
        ELSE IF UserById(api_keys[api].user_id) = 0 THEN AuthErr("User not found")
        ELSE AuthOk(api_keys[api].user_id, "api_key", api)

TokenPath(authorization) ==
    LET scheme == authorization[1]
        token == authorization[2]
    IN  IF Lower(scheme) # "bearer" THEN AuthErr("Invalid auth scheme")
        ELSE IF ~TokenDecodes(token, now) THEN AuthErr("Invalid token")
        ELSE LET user_id == ToInt(token.sub)
                 org_id == ToInt(token.org)
             IN  IF UserById(user_id) = 0 THEN AuthErr("User not found")
                 ELSE IF OrgMismatch(users[user_id].org_id, org_id)
                      THEN AuthErr("org mismatch in token")
                 ELSE AuthOk(user_id, "jwt", 0)

\* x_api_key: the header's value, <<>> when absent or empty (both falsy);
\* authorization: <<>> when absent, else <<scheme, token>>.
\* Mutant: a key that does not resolve falls back to the token.
get_current_user_Fallback(x_api_key, authorization) ==
    IF x_api_key # <<>> /\ (KeyPath(x_api_key).status = 200 \/ authorization = <<>>)
    THEN KeyPath(x_api_key)
    ELSE IF authorization # <<>> THEN TokenPath(authorization)
    ELSE AuthErr("No authentication provided")

get_current_user(x_api_key, authorization) ==
    IF x_api_key # <<>> THEN KeyPath(x_api_key)
    ELSE IF authorization # <<>> THEN TokenPath(authorization)
    ELSE AuthErr("No authentication provided")

-----------------------------------------------------------------------------
\* Requests the clients can send

OrgNames == {"demo_org", "acme", "beta"}

UserNames == {"admin", "alice", "bob"}

SignupPasswords == {"pw"}

LoginPasswords == {"password", "pw", "wrong"}

\* A token nobody signed with the server's key.
ForgedToken ==
    [sub |-> Str(1), org |-> Str(1), user_type |-> "ENTERPRISE",
     iat |-> 0, exp |-> 60 * ACCESS_TOKEN_EXPIRE_MINUTES, sig |-> "HS256:guess"]

Bearer(t) == <<"Bearer", t>>

\* Plaintext keys a client may present: every key generated so far, the next
\* one (not generated yet), and the masked preview of a stored key.
KeyHeaders ==
    {ClearKey(n) : n \in 0..drawn} \cup {api_keys[i].key_preview : i \in DOMAIN api_keys}

TokenHeaders ==
    {Bearer(t) : t \in issued \cup {ForgedToken}} \cup {<<"Basic", ForgedToken>>}

\* <<x_api_key, authorization>>: no credential, a key alone, a token alone, or
\* a generated key together with a signed token.
Credentials ==
    {<<<<>>, <<>>>>}
      \cup {<<k, <<>>>> : k \in KeyHeaders}
      \cup {<<<<>>, a>> : a \in TokenHeaders}
      \cup {<<ClearKey(n), Bearer(t)>> : n \in 0..drawn, t \in issued}

\* Signed tokens alone
TokenCredentials == {<<<<>>, Bearer(t)>> : t \in issued}

-----------------------------------------------------------------------------
\* Auth endpoints (lines 254-276)

SignupReply(status, detail, out, new_orgs, new_users) ==
    [status |-> status, detail |-> detail, out |-> out,
     orgs |-> new_orgs, users |-> new_users]

\* Mutant: users.username is not unique, the second commit goes through.
signup_NoUniqueUsername(org_name, username, password, user_type, is_admin) ==
    IF OrgByName(org_name) # 0
    THEN SignupReply(400, "org exists", <<>>, orgs, users)
    ELSE LET orgs1 == Append(orgs, Org(org_name))
             user == User(Len(orgs1), username, get_password_hash(password),
                          is_admin, user_type)
         IN  SignupReply(200, "",
                         [org_id |-> Len(orgs1), user_id |-> Len(users) + 1,
                          username |-> username],
                         orgs1, Append(users, user))

signup(org_name, username, password, user_type, is_admin) ==
    IF OrgByName(org_name) # 0
    THEN SignupReply(400, "org exists", <<>>, orgs, users)
    ELSE LET orgs1 == Append(orgs, Org(org_name))
             org_id == Len(orgs1)
         IN  IF UserByName(username) # 0
             THEN \* users.username is unique: the second commit raises
                  \* IntegrityError; the first commit (the org) stands
                  SignupReply(500, "IntegrityError", <<>>, orgs1, users)
             ELSE LET user == User(org_id, username, get_password_hash(password),
                                   is_admin, user_type)
                  IN  SignupReply(200, "",
                                  [org_id |-> org_id, user_id |-> Len(users) + 1,
                                   username |-> username],
                                  orgs1, Append(users, user))

\* Every signup request over the names above
SignupReqs ==
    OrgNames \X UserNames \X SignupPasswords \X UserTypeEnum \X BOOLEAN

\* A request that leaves the store as it is takes a stuttering step: the
\* actions below enumerate the requests that change it.
Signup(reqs) ==
    /\ \E r \in reqs :
          LET s == signup(r[1], r[2], r[3], r[4], r[5])
          IN  /\ s.orgs # orgs
              /\ Len(s.orgs) <= MaxOrgs
              /\ orgs' = s.orgs
              /\ users' = s.users
    /\ UNCHANGED <<now, ticks, api_keys, issued, drawn, counters, thr, tally>>

TokenReply(status, detail, out, new_issued) ==
    [status |-> status, detail |-> detail, out |-> out, issued |-> new_issued]

token(username, password) ==
    LET user == UserByName(username)
    IN  IF user = 0 \/ ~verify_password(password, users[user].hashed_password)
        THEN TokenReply(401, "Invalid credentials", <<>>, issued)
        ELSE LET payload == [sub |-> Str(user), org |-> Str(users[user].org_id),
                             user_type |-> users[user].user_type]
                 tok == create_access_token(payload, now, ACCESS_TOKEN_EXPIRE_MINUTES)
             IN  TokenReply(200, "", Some(tok), issued \cup {tok})

Token(usernames, passwords) ==
    /\ \E username \in usernames, password \in passwords :
          LET s == token(username, password)
          IN  /\ s.issued # issued
              /\ Cardinality(s.issued) <= MaxTokens
              /\ issued' = s.issued
    /\ UNCHANGED <<now, ticks, orgs, users, api_keys, drawn, counters, thr, tally>>

-----------------------------------------------------------------------------
\* Rate limit logic (lines 159-185): Redis fixed window per second

RL_TTL == 2

\* line 174: f"rl:user:{user_id}:{now_s}"
\* Mutant: the key names the second only, all users share it.
RlKey_SharedByUsers(user_id, now_s) == <<"rl:user", 0, now_s>>

RlKey(user_id, now_s) == <<"rl:user", user_id, now_s>>

\* Redis INCR: creates the key at 1 (with no time-to-live) or adds one.
Incr(c, key) ==
    IF key \in DOMAIN c THEN [c EXCEPT ![key].val = @ + 1]
    ELSE c @@ (key :> [val |-> 1, exp |-> None])

\* Redis EXPIRE key ttl, issued at time t
Expire(c, key, ttl, t) == [c EXCEPT ![key].exp = Some(t + ttl)]

\* Redis drops a key once its time-to-live has run out.
Expired(c, t) == {k \in DOMAIN c : c[k].exp # None /\ c[k].exp[1] <= t}

Purge(c, t) == [k \in DOMAIN c \ Expired(c, t) |-> c[k]]

\* Mutant: only the configured number decides, and 0 is taken as a limit.
Unlimited_NegativeOnly(user_type) == API_KEY_QUOTA_get(user_type) < 0

\* lines 166-171: no limit applies
Unlimited(user_type) ==
    \/ user_type = "ENTERPRISE"
    \/ API_KEY_QUOTA_get(user_type) <= 0

\* line 177
FirstIncrement(cur) == cur = 1

\* Mutant: the limit itself is refused.
OverLimit_AtLimit(cur, limit) == cur >= limit

\* line 180
OverLimit(cur, limit) == cur > limit

RlAllowed(c) == [allowed |-> TRUE, info |-> None, counters |-> c]

RlDenied(c, limit, cur) ==
    [allowed |-> FALSE, info |-> Some([limit |-> limit, current |-> cur]), counters |-> c]

\* Mutant: the counter is read and compared first, and a refused call is
\* not counted.
rate_limit_check_by_user_CompareFirst(c, user_id, user_type, t, fail) ==
    IF Unlimited(user_type) THEN RlAllowed(c)
    ELSE LET limit == API_KEY_QUOTA_get(user_type)
             key == RlKey(user_id, t)
             seen == IF key \in DOMAIN c THEN c[key].val ELSE 0
         IN  IF fail = "incr" THEN RlAllowed(c)
             ELSE IF seen >= limit THEN RlDenied(c, limit, seen)
             ELSE LET c1 == Incr(c, key)
                  IN  IF FirstIncrement(seen + 1) /\ fail = "expire" THEN RlAllowed(c1)
                      ELSE IF FirstIncrement(seen + 1)
                           THEN RlAllowed(Expire(c1, key, RL_TTL, t))
                      ELSE RlAllowed(c1)

\* Mutant: a Redis error refuses the request.
rate_limit_check_by_user_FailClosed(c, user_id, user_type, t, fail) ==
    IF Unlimited(user_type) THEN RlAllowed(c)
    ELSE LET limit == API_KEY_QUOTA_get(user_type)
             key == RlKey(user_id, t)
         IN  IF fail = "incr" THEN RlDenied(c, limit, 0)
             ELSE LET c1 == Incr(c, key)
                      cur == c1[key].val
                  IN  IF FirstIncrement(cur) /\ fail = "expire" THEN RlDenied(c1, limit, cur)
                      ELSE LET c2 == IF FirstIncrement(cur)
                                     THEN Expire(c1, key, RL_TTL, t) ELSE c1
                           IN  IF OverLimit(cur, limit) THEN RlDenied(c2, limit, cur)
                               ELSE RlAllowed(c2)

\* The whole function run at time t on the store c.  fail names the Redis call
\* that raises RedisError, if any: "incr", "expire" or "none".
rate_limit_check_by_user(c, user_id, user_type, t, fail) ==
    IF Unlimited(user_type) THEN RlAllowed(c)
    ELSE LET limit == API_KEY_QUOTA_get(user_type)
             key == RlKey(user_id, t)
         IN  IF fail = "incr" THEN RlAllowed(c)
             ELSE LET c1 == Incr(c, key)
                      cur == c1[key].val
                  IN  IF FirstIncrement(cur) /\ fail = "expire" THEN RlAllowed(c1)
                      ELSE LET c2 == IF FirstIncrement(cur)
                                     THEN Expire(c1, key, RL_TTL, t) ELSE c1
                           IN  IF OverLimit(cur, limit) THEN RlDenied(c2, limit, cur)
                               ELSE RlAllowed(c2)

RedisFailures == {"none", "incr", "expire"}

-----------------------------------------------------------------------------
\* API key management endpoints (lines 317-389)

SECONDS_PER_DAY == 86400

\* req.scopes: None, or a list of scope strings
ScopeArgs ==
    {None, Some(<<>>), Some(<<S("generate:text")>>), Some(<<S("admin")>>),
     Some(<<S("bogus")>>), Some(<<<<"x", "generate:text">>>>)}

\* req.expires_days: 0 stands for None too (both are falsy at line 335)
ExpiresDays == {0, 1, -1}

\* line 323: filter_by(user_id=user.id, revoked=False).count()
\* Mutant: keys past their expiry are not counted.
LiveCount_Unexpired(keys, user_id) ==
    Cardinality({i \in DOMAIN keys :
                    /\ keys[i].user_id = user_id
                    /\ keys[i].revoked = FALSE
                    /\ ~KeyExpired(keys[i], now)})

LiveCount(keys, user_id) ==
    Cardinality({i \in DOMAIN keys : keys[i].user_id = user_id /\ keys[i].revoked = FALSE})

\* Mutant: an off-by-one comparison.
QuotaExceeded_Strict(existing_count, quota) == existing_count > quota

\* line 324
QuotaExceeded(existing_count, quota) == existing_count >= quota

\* line 331
ScopesFor(req_scopes, user_type) ==
    IF req_scopes # None THEN req_scopes[1] ELSE DEFAULT_SCOPES_get(user_type)

\* lines 334-336
ExpiresAt(expires_days, t) ==
    IF expires_days # 0 THEN Some(t + SECONDS_PER_DAY * expires_days) ELSE None

\* lines 327-338: the row for the n-th generated key
NewKey(user_id, req_scopes, expires_days, n, t) ==
    LET user == users[user_id]
        clear_key == ClearKey(n)
        key_hash == hash_key_hmac(clear_key)
        preview == mask_key(clear_key)
        scopes == ScopesFor(req_scopes, user.user_type)
        scopes_str == Join(scopes)
        expires_at == ExpiresAt(expires_days, t)
    IN  APIKey(user.org_id, user_id, key_hash, preview, scopes_str, expires_at)

\* api_keys.key_hash is unique
HashTaken(keys, key_hash) == \E i \in DOMAIN keys : keys[i].key_hash = key_hash

KeyReply(status, detail, auth, out, new_keys, new_drawn) ==
    [status |-> status, detail |-> detail, auth |-> auth, out |-> out,
     api_keys |-> new_keys, drawn |-> new_drawn]

\* n: which value secrets.token_hex returns: the drawn-th (a new one) or an
\* earlier one again.
create_api_key(req_scopes, expires_days, cred, n) ==
    LET auth == get_current_user(cred[1], cred[2])
    IN  IF auth.status # 200
        THEN KeyReply(auth.status, auth.detail, auth, <<>>, api_keys, drawn)
        ELSE IF auth.auth_type # "jwt"
        THEN KeyReply(403, "Only JWT users can create keys", auth, <<>>, api_keys, drawn)
        ELSE LET user == users[auth.user]
                 quota == API_KEY_QUOTA_get(user.user_type)
                 existing_count == LiveCount(api_keys, auth.user)
             IN  IF QuotaExceeded(existing_count, quota)
                 THEN KeyReply(403, "API key quota exceeded", auth, <<>>, api_keys, drawn)
                 ELSE LET api == NewKey(auth.user, req_scopes, expires_days, n, now)
                          drawn1 == IF n = drawn THEN drawn + 1 ELSE drawn
                      IN  IF HashTaken(api_keys, api.key_hash)
                          THEN \* commit raises IntegrityError
                               KeyReply(500, "IntegrityError", auth, <<>>, api_keys, drawn1)
                          ELSE KeyReply(200, "", auth,
                                        [id |-> Len(api_keys) + 1, org_id |-> api.org_id,
                                         user_id |-> api.user_id, key |-> ClearKey(n),
                                         scopes |-> ScopesFor(req_scopes, user.user_type),
                                         revoked |-> api.revoked,
                                         expires_at |-> api.expires_at],
                                        Append(api_keys, api), drawn1)

CreateKey(scope_args, days, creds, cap) ==
    /\ Len(api_keys) < cap
    /\ \E cred \in creds :
          /\ create_api_key(None, 0, cred, drawn).status = 200
          /\ \E req_scopes \in scope_args, expires_days \in days, n \in 0..drawn :
                LET s == create_api_key(req_scopes, expires_days, cred, n)
                IN  /\ s.api_keys # api_keys
                    /\ api_keys' = s.api_keys
                    /\ drawn' = s.drawn
    /\ UNCHANGED <<now, ticks, orgs, users, issued, counters, thr, tally>>

\* lines 363-375: one listed key
Listed(id, a) ==
    [id |-> id, org_id |-> a.org_id, user_id |-> a.user_id, key |-> a.key_preview,
     scopes |-> Split(a.scopes), revoked |-> a.revoked, expires_at |-> a.expires_at]

\* The ids of a table, in id order (.all() returns rows in id order)
Ids(table) == [i \in 1..Len(table) |-> i]

ListReply(status, detail, auth, out) ==
    [status |-> status, detail |-> detail, auth |-> auth, out |-> out]

list_api_keys(cred) ==
    LET auth == get_current_user(cred[1], cred[2])
    IN  IF auth.status # 200
        THEN ListReply(auth.status, auth.detail, auth, <<>>)
        ELSE IF auth.auth_type # "jwt"
        THEN ListReply(403, "Only JWT users can list keys", auth, <<>>)
        ELSE LET Mine(i) == api_keys[i].user_id = auth.user
                 apis == SelectSeq(Ids(api_keys), Mine)
             IN  ListReply(200, "", auth,
                           [j \in DOMAIN apis |-> Listed(apis[j], api_keys[apis[j]])])

\* A listing reads the store and leaves it as it is.
ListKeys(creds) ==
    /\ (\E cred \in creds : list_api_keys(cred).status = 200) = TRUE
    /\ UNCHANGED vars

\* Mutant: the lookup is by id alone.
OwnKey_AnyOwner(keys, key_id, user_id) ==
    First({i \in DOMAIN keys : i = key_id})

\* line 383: filter_by(id=key_id, user_id=user.id)
OwnKey(keys, key_id, user_id) ==
    First({i \in DOMAIN keys : i = key_id /\ keys[i].user_id = user_id})

\* line 386
Revoked(a) == [a EXCEPT !.revoked = TRUE]

RevokeReply(status, detail, auth, out, new_keys) ==
    [status |-> status, detail |-> detail, auth |-> auth, out |-> out,
     api_keys |-> new_keys]

\* Mutant: the credential kind is not tested.
revoke_api_key_AnyKind(key_id, cred) ==
    LET auth == get_current_user(cred[1], cred[2])
    IN  IF auth.status # 200
        THEN RevokeReply(auth.status, auth.detail, auth, <<>>, api_keys)
        ELSE LET api == OwnKey(api_keys, key_id, auth.user)
             IN  IF api = 0
                 THEN RevokeReply(404, "API key not found", auth, <<>>, api_keys)
                 ELSE RevokeReply(200, "", auth, [status |-> "revoked", id |-> api],
                                  [api_keys EXCEPT ![api] = Revoked(@)])

revoke_api_key(key_id, cred) ==
    LET auth == get_current_user(cred[1], cred[2])
    IN  IF auth.status # 200
        THEN RevokeReply(auth.status, auth.detail, auth, <<>>, api_keys)
        ELSE IF auth.auth_type # "jwt"
        THEN RevokeReply(403, "Only JWT users can revoke keys", auth, <<>>, api_keys)
        ELSE LET api == OwnKey(api_keys, key_id, auth.user)
             IN  IF api = 0
                 THEN RevokeReply(404, "API key not found", auth, <<>>, api_keys)
                 ELSE RevokeReply(200, "", auth, [status |-> "revoked", id |-> api],
                                  [api_keys EXCEPT ![api] = Revoked(@)])

KeyIds == 1..(Len(api_keys) + 1)

RevokeKey(creds) ==
    /\ \E key_id \in KeyIds, cred \in creds :
          LET s == revoke_api_key(key_id, cred)
          IN  /\ s.api_keys # api_keys
              /\ api_keys' = s.api_keys
    /\ UNCHANGED <<now, ticks, orgs, users, issued, drawn, counters, thr, tally>>

-----------------------------------------------------------------------------
\* Protected endpoint with rate limiting (lines 394-419)

\* line 413
HasScope(scopes_str, scope) == scope \in Range(Split(scopes_str))

GenReply(status, detail, auth, out, new_counters) ==
    [status |-> status, detail |-> detail, auth |-> auth, out |-> out,
     counters |-> new_counters]

\* Mutant: the scope test is left out.
AfterRateLimit_NoScopeTest(auth, c) ==
    IF auth.auth_type = "api_key"
    THEN GenReply(200, "", auth, <<"by api_key user", auth.user>>, c)
    ELSE GenReply(200, "", auth, <<"by user", auth.user>>, c)

\* lines 409-419, once the rate limiter has allowed the request
AfterRateLimit(auth, c) ==
    IF auth.auth_type = "api_key"
    THEN IF ~HasScope(api_keys[auth.api].scopes, "generate:text")
         THEN GenReply(403, "API key missing required scope", auth, <<>>, c)
         ELSE GenReply(200, "", auth, <<"by api_key user", auth.user>>, c)
    ELSE GenReply(200, "", auth, <<"by user", auth.user>>, c)

\* Mutant: the scope test comes before the rate limiter.
generate_ScopeFirst(cred, fail) ==
    LET auth == get_current_user(cred[1], cred[2])
    IN  IF auth.status # 200
        THEN GenReply(auth.status, auth.detail, auth, <<>>, counters)
        ELSE IF AfterRateLimit(auth, counters).status = 403
        THEN AfterRateLimit(auth, counters)
        ELSE LET user == users[auth.user]
                 rl == rate_limit_check_by_user(counters, auth.user, user.user_type,
                                                now, fail)
             IN  IF ~rl.allowed
                 THEN GenReply(429, "rate limit exceeded", auth, rl.info, rl.counters)
                 ELSE AfterRateLimit(auth, rl.counters)

\* Mutant: a request that failed authentication is counted as an anonymous one.
generate_CountAnonymous(cred, fail) ==
    LET auth == get_current_user(cred[1], cred[2])
    IN  IF auth.status # 200
        THEN GenReply(auth.status, auth.detail, auth, <<>>,
                      Incr(counters, RlKey(0, now)))
        ELSE LET user == users[auth.user]
                 rl == rate_limit_check_by_user(counters, auth.user, user.user_type,
                                                now, fail)
             IN  IF ~rl.allowed
                 THEN GenReply(429, "rate limit exceeded", auth, rl.info, rl.counters)
                 ELSE AfterRateLimit(auth, rl.counters)

\* Mutant: a request by API key is counted on a counter of that key.
generate_PerKeyCounter(cred, fail) ==
    LET auth == get_current_user(cred[1], cred[2])
    IN  IF auth.status # 200
        THEN GenReply(auth.status, auth.detail, auth, <<>>, counters)
        ELSE LET user == users[auth.user]
                 id == IF auth.auth_type = "api_key" THEN 0 - auth.api ELSE auth.user
                 rl == rate_limit_check_by_user(counters, id, user.user_type, now, fail)
             IN  IF ~rl.allowed
                 THEN GenReply(429, "rate limit exceeded", auth, rl.info, rl.counters)
                 ELSE AfterRateLimit(auth, rl.counters)

generate(cred, fail) ==
    LET auth == get_current_user(cred[1], cred[2])
    IN  IF auth.status # 200
        THEN GenReply(auth.status, auth.detail, auth, <<>>, counters)
        ELSE LET user == users[auth.user]
                 rl == rate_limit_check_by_user(counters, auth.user, user.user_type,
                                                now, fail)
             IN  IF ~rl.allowed
                 THEN GenReply(429, "rate limit exceeded", auth, rl.info, rl.counters)
                 ELSE AfterRateLimit(auth, rl.counters)

Generate(creds, fails, cap) ==
    /\ \E cred \in creds, fail \in fails :
          LET s == generate(cred, fail)
          IN  /\ s.counters # counters
              /\ \A k \in DOMAIN s.counters : s.counters[k].val <= cap
              /\ counters' = s.counters
    /\ UNCHANGED <<now, ticks, orgs, users, api_keys, issued, drawn, thr, tally>>

-----------------------------------------------------------------------------
\* Admin endpoint (lines 424-443)

OrgListed(id, a) ==
    [id |-> id, user_id |-> a.user_id, key_preview |-> a.key_preview,
     scopes |-> Split(a.scopes), revoked |-> a.revoked]

\* Mutant: the tenant test is left out.
list_org_keys_AnyTenant(org_id, cred) ==
    LET auth == get_current_user(cred[1], cred[2])
    IN  IF auth.status # 200
        THEN ListReply(auth.status, auth.detail, auth, <<>>)
        ELSE IF ~users[auth.user].is_admin
        THEN ListReply(403, "Admin only", auth, <<>>)
        ELSE LET InOrg(i) == api_keys[i].org_id = org_id
                 keys == SelectSeq(Ids(api_keys), InOrg)
             IN  ListReply(200, "", auth,
                           [j \in DOMAIN keys |-> OrgListed(keys[j], api_keys[keys[j]])])

list_org_keys(org_id, cred) ==
    LET auth == get_current_user(cred[1], cred[2])
    IN  IF auth.status # 200
        THEN ListReply(auth.status, auth.detail, auth, <<>>)
        ELSE LET user == users[auth.user]
             IN  IF user.org_id # org_id
                 THEN ListReply(403, "Cross-tenant access denied", auth, <<>>)
                 ELSE IF ~user.is_admin
                 THEN ListReply(403, "Admin only", auth, <<>>)
                 ELSE LET InOrg(i) == api_keys[i].org_id = org_id
                          keys == SelectSeq(Ids(api_keys), InOrg)
                      IN  ListReply(200, "", auth,
                                [j \in DOMAIN keys |-> OrgListed(keys[j], api_keys[keys[j]])])

OrgIds == 1..(Len(orgs) + 1)

ListOrgKeys(creds) ==
    /\ (\E org_id \in OrgIds, cred \in creds :
            list_org_keys(org_id, cred).status = 200) = TRUE
    /\ UNCHANGED vars

-----------------------------------------------------------------------------
\* The clock.  It advances by a second, by the lifetime of a token or by a
\* day; Redis drops the counters whose time-to-live has run out.

TickSteps == {1, 60 * ACCESS_TOKEN_EXPIRE_MINUTES, SECONDS_PER_DAY}

Tick(steps, cap) ==
    /\ ticks < cap
    /\ \E d \in steps :
          /\ now' = now + d
          /\ counters' = Purge(counters, now + d)
    /\ ticks' = ticks + 1
    /\ tally' = <<>>
    /\ UNCHANGED <<orgs, users, api_keys, issued, drawn, thr>>

-----------------------------------------------------------------------------
\* Spec: tenants, logins and the key lifecycle from startup, one request at
\* a time.  Two tenants sign up beside the demo tenant.

TwoTenants ==
    {<<"acme", "alice", "pw", "NORMAL", FALSE>>, <<"beta", "bob", "pw", "VIP", TRUE>>}

KeyScopeArgs == {None, Some(<<>>)}

Next ==
    \/ Signup(TwoTenants)
    \/ Token(UserNames, {"password", "pw"})
    \/ CreateKey(KeyScopeArgs, ExpiresDays, Credentials, MaxKeys)
    \/ ListKeys(Credentials)
    \/ RevokeKey(Credentials)
    \/ ListOrgKeys(Credentials)
    \/ Tick(TickSteps, MaxTicks)

Spec == Init /\ [][Next]_vars

\* The credentials that present the plaintext of stored key i
Presenting(i) ==
    {cred \in Credentials : hash_key_hmac(cred[1]) = api_keys[i].key_hash}

\* C3: once a key is revoked its revoked flag stays true, and every identity
\* resolution that presents its plaintext fails with 401, in every later state.
C3_RevokedForever ==
    /\ [](\A i \in DOMAIN api_keys :
             api_keys[i].revoked =>
                \A cred \in Presenting(i) :
                    get_current_user(cred[1], cred[2]).status = 401)
    /\ [][\A i \in DOMAIN api_keys :
             api_keys[i].revoked =>
                /\ i \in DOMAIN api_keys'
                /\ api_keys'[i].revoked
                /\ api_keys'[i].key_hash = api_keys[i].key_hash]_vars

\* A key has been revoked, later requests were served, and its plaintext is
\* refused.
C3_Witness ==
    \E i \in DOMAIN api_keys :
        /\ api_keys[i].revoked
        /\ Len(api_keys) > i
        /\ Presenting(i) # {}
        /\ \A cred \in Presenting(i) : get_current_user(cred[1], cred[2]).status = 401

\* C4: the plaintext of a stored key that is neither revoked nor past its
\* expiry resolves to the key's owner, as an api_key credential carrying that
\* key (and so its scopes).
C4_LiveKeyResolvesToOwner ==
    \A i \in DOMAIN api_keys :
        (~api_keys[i].revoked
           /\ ~(api_keys[i].expires_at # None /\ api_keys[i].expires_at[1] < now)) =>
            \A cred \in Presenting(i) :
                LET auth == get_current_user(cred[1], cred[2])
                IN  /\ auth.status = 200
                    /\ auth.user = api_keys[i].user_id
                    /\ auth.auth_type = "api_key"
                    /\ auth.api = i
                    /\ api_keys[auth.api].scopes = api_keys[i].scopes

\* Two users hold live keys, one of them with an expiry still ahead, and each
\* key resolves to its own user.
C4_Witness ==
    \E i, j \in DOMAIN api_keys :
        /\ api_keys[i].user_id # api_keys[j].user_id
        /\ ~api_keys[i].revoked /\ ~api_keys[j].revoked
        /\ api_keys[i].expires_at # None /\ api_keys[i].expires_at[1] > now
        /\ \E cred \in Presenting(i) :
              get_current_user(cred[1], cred[2]).user = api_keys[i].user_id
        /\ \E cred \in Presenting(j) :
              get_current_user(cred[1], cred[2]).user = api_keys[j].user_id

\* C7: key creation by an ENTERPRISE user authenticated by token is never
\* refused for quota, whatever the number of live keys of that user.
C7_UnlimitedNeverRefused ==
    \A cred \in TokenCredentials :
        LET auth == get_current_user(cred[1], cred[2])
        IN  (auth.status = 200 /\ users[auth.user].user_type = "ENTERPRISE") =>
                \A req_scopes \in KeyScopeArgs, expires_days \in ExpiresDays :
                    create_api_key(req_scopes, expires_days, cred, drawn).detail
                        # "API key quota exceeded"

-----------------------------------------------------------------------------
\* SpecQuota: one NORMAL user fills the key quota, revokes and creates again.

OneTenant == {<<"acme", "alice", "pw", "NORMAL", FALSE>>}

QuotaCap == QUOTA_NORMAL + MaxOver

NextQuota ==
    \/ Signup(OneTenant)
    \/ Token({"alice"}, {"pw"})
    \/ CreateKey({None}, {0}, Credentials, QuotaCap)
    \/ RevokeKey(TokenCredentials)

SpecQuota == Init /\ [][NextQuota]_vars

\* The table of section 4.5 of the design: the tiers with a finite maximum
FiniteTiers == {"NORMAL", "VIP"}

MaxLiveKeys(tier) == IF tier = "NORMAL" THEN 10 ELSE 100

Live(user_id) ==
    {i \in DOMAIN api_keys : api_keys[i].user_id = user_id /\ ~api_keys[i].revoked}

\* C5: for a user of a tier with a finite maximum, authenticated by token, a
\* creation with the live keys at or over the maximum is refused for quota and
\* stores nothing; with the live keys under the maximum (as after revoking
\* one) a creation with a newly generated key succeeds and stores one key.
C5_QuotaThenRevokeThenCreate ==
    \A cred \in TokenCredentials :
        LET auth == get_current_user(cred[1], cred[2])
            s == create_api_key(None, 0, cred, drawn)
        IN  (auth.status = 200 /\ users[auth.user].user_type \in FiniteTiers) =>
              IF Cardinality(Live(auth.user)) >= MaxLiveKeys(users[auth.user].user_type)
              THEN /\ s.status = 403
                   /\ s.detail = "API key quota exceeded"
                   /\ s.api_keys = api_keys
              ELSE /\ s.status = 200
                   /\ Len(s.api_keys) = Len(api_keys) + 1
                   /\ s.api_keys[Len(s.api_keys)].user_id = auth.user
                   /\ ~s.api_keys[Len(s.api_keys)].revoked

\* The user holds the maximum of live keys, one of the first ten keys is
\* revoked and an eleventh key has been created: a further creation is refused.
C5_Witness ==
    /\ Len(api_keys) = 11
    /\ Cardinality(Live(2)) = 10
    /\ \E i \in 1..10 : api_keys[i].revoked
    /\ \E cred \in TokenCredentials : create_api_key(None, 0, cred, drawn).status = 403

-----------------------------------------------------------------------------
\* SpecRace: two handlers of POST /apikeys run at once.  Each request has its
\* own database session; the count query (line 323) and the insert with its
\* commit (lines 339-340) are separate statements, with no lock and no
\* constraint between them, so other requests' statements come in between.

Handlers == {"h1", "h2"}

\* lines 319-326: the dependency, the role test and the quota test
BeginCreate(handlers, scope_args, days, creds, cap) ==
    /\ Len(api_keys) + Cardinality(DOMAIN thr) < cap
    /\ \E h \in handlers \ DOMAIN thr, cred \in creds :
          LET auth == get_current_user(cred[1], cred[2])
          IN  /\ auth.status = 200
              /\ auth.auth_type = "jwt"
              /\ LET existing_count == LiveCount(api_keys, auth.user)
                     quota == API_KEY_QUOTA_get(users[auth.user].user_type)
                 IN  /\ ~QuotaExceeded(existing_count, quota)
                     /\ \E req_scopes \in scope_args, expires_days \in days :
                           thr' = thr @@ (h :> [user |-> auth.user,
                                                existing_count |-> existing_count,
                                                req_scopes |-> req_scopes,
                                                expires_days |-> expires_days])
    /\ UNCHANGED <<now, ticks, orgs, users, api_keys, issued, drawn, counters, tally>>

\* lines 327-354: the key is generated, inserted and committed
FinishCreate(handlers) ==
    /\ \E h \in handlers \cap DOMAIN thr, n \in 0..drawn :
          LET api == NewKey(thr[h].user, thr[h].req_scopes, thr[h].expires_days, n, now)
          IN  /\ api_keys' = IF HashTaken(api_keys, api.key_hash) THEN api_keys
                             ELSE Append(api_keys, api)
              /\ drawn' = IF n = drawn THEN drawn + 1 ELSE drawn
              /\ thr' = [g \in DOMAIN thr \ {h} |-> thr[g]]
    /\ UNCHANGED <<now, ticks, orgs, users, issued, counters, tally>>

NextRace ==
    \/ Signup(OneTenant)
    \/ Token({"alice"}, {"pw"})
    \/ BeginCreate(Handlers, {None}, {0}, TokenCredentials, QuotaCap)
    \/ FinishCreate(Handlers)
    \/ RevokeKey(TokenCredentials)

SpecRace == Init /\ [][NextRace]_vars

\* C6: whatever the interleaving of concurrent creations, no user of a tier
\* with a finite maximum ever holds more live keys than that maximum.
C6_NeverOverMaxLiveKeys ==
    \A u \in DOMAIN users :
        users[u].user_type \in FiniteTiers =>
            Cardinality(Live(u)) <= MaxLiveKeys(users[u].user_type)

-----------------------------------------------------------------------------
\* SpecGate: POST /generate with every kind of credential.  A NORMAL user
\* signs up beside the start-up ENTERPRISE user; keys are created with
\* default, empty and foreign scopes, live or already expired.

GateScopeArgs ==
    {None, Some(<<>>), Some(<<S("admin")>>), Some(<<<<"x", "generate:text">>>>)}

GateCap == QUOTA_NORMAL + MaxOver

NextGate ==
    \/ Signup(OneTenant)
    \/ Token({"alice"}, {"pw"})
    \/ CreateKey(GateScopeArgs, {0, -1}, TokenCredentials, MaxGateKeys)
    \/ RevokeKey(TokenCredentials)
    \/ Generate(Credentials, RedisFailures, GateCap)
    \/ Tick({1, 60 * ACCESS_TOKEN_EXPIRE_MINUTES + 1}, MaxTicks)

SpecGate == Init /\ [][NextGate]_vars

\* What the design calls the effective scopes of a resolved request: the
\* key's stored scope set on the key path, the tier's default set on the
\* token path.
EffectiveScopes(auth) ==
    IF auth.auth_type = "api_key" THEN Range(Split(api_keys[auth.api].scopes))
    ELSE Range(Split(Join(DEFAULT_SCOPES_get(users[auth.user].user_type))))

\* The rate limiter's answer to a resolved request, taken on its own
Limiter(auth, fail) ==
    rate_limit_check_by_user(counters, auth.user, users[auth.user].user_type, now, fail)

C9_UnauthenticatedLeavesCounters ==
    \A cred \in Credentials, fail \in RedisFailures :
        LET auth == get_current_user(cred[1], cred[2])
            g == generate(cred, fail)
        IN  auth.status # 200 =>
                /\ g.status = 401
                /\ g.counters = counters

\* Counters exist, and a revoked or expired key and an expired token are at
\* hand beside the absent, unknown and forged credentials.
C9_Witness ==
    /\ counters # <<>>
    /\ \E i \in DOMAIN api_keys :
          /\ api_keys[i].revoked \/ KeyExpired(api_keys[i], now)
          /\ Presenting(i) # {}
    /\ \E t \in issued : t.exp < now
    /\ \A cred \in Credentials :
          get_current_user(cred[1], cred[2]).status = 401

\* C10 (as stated): a resolved request is admitted only if its effective
\* scopes contain generate:text, and is answered Forbidden otherwise.
C10_ForbiddenWithoutScope ==
    \A cred \in Credentials, fail \in RedisFailures :
        LET auth == get_current_user(cred[1], cred[2])
            g == generate(cred, fail)
        IN  auth.status = 200 =>
                /\ g.status = 200 => "generate:text" \in EffectiveScopes(auth)
                /\ "generate:text" \notin EffectiveScopes(auth) => g.status = 403

\* C10 (amended): a resolved request is admitted only if its effective scopes
\* contain generate:text; one whose scopes lack it, or are empty, is never
\* admitted: it is answered 429 when the rate limiter, which runs first,
\* refuses it, and 403 otherwise.
C10_NeverAdmittedWithoutScope ==
    \A cred \in Credentials, fail \in RedisFailures :
        LET auth == get_current_user(cred[1], cred[2])
            g == generate(cred, fail)
        IN  auth.status = 200 =>
                /\ g.status = 200 => "generate:text" \in EffectiveScopes(auth)
                /\ "generate:text" \notin EffectiveScopes(auth) =>
                      g.status = IF Limiter(auth, fail).allowed THEN 403 ELSE 429

\* A live key with an empty scope set is presented when its user has used up
\* the second: the request is answered 429; and a token is admitted.
C10_Witness ==
    /\ \E cred \in Credentials :
          LET auth == get_current_user(cred[1], cred[2])
          IN  /\ auth.status = 200
              /\ auth.auth_type = "api_key"
              /\ EffectiveScopes(auth) = {}
              /\ generate(cred, "none").status = 429
              /\ generate(cred, "incr").status = 403
    /\ \E cred \in TokenCredentials : generate(cred, "incr").status = 200

-----------------------------------------------------------------------------
\* SpecRL: rate_limit_check_by_user called by handlers running at once, all
\* within one second (the clock does not move in this specification).  The
\* calls to Redis (INCR, EXPIRE) are the atomic steps; what a handler does
\* between them is local.  tally records, for the current second, what the
\* calls made and finished within it returned.

RlHandlers == {"w1", "w2"}

NoTally == [adm |-> 0, den |-> 0, ok |-> TRUE]

\* a call met a Redis error: the second's tally says nothing any more
Tainted == [adm |-> 0, den |-> 0, ok |-> FALSE]

TallyOf(u) == IF u \in DOMAIN tally THEN tally[u] ELSE NoTally

\* The call for user u that read the clock at now_s returns (allowed) or
\* returns after a Redis error (failed).
Returned(u, now_s, allowed, failed) ==
    IF now_s # now THEN tally
    ELSE LET r == TallyOf(u)
             r1 == IF failed \/ ~r.ok THEN Tainted
                   ELSE IF allowed THEN [r EXCEPT !.adm = @ + 1]
                   ELSE [r EXCEPT !.den = @ + 1]
         IN  [v \in DOMAIN tally \cup {u} |-> IF v = u THEN r1 ELSE tally[v]]

Without(h) == [g \in DOMAIN thr \ {h} |-> thr[g]]

CounterAt(key) == IF key \in DOMAIN counters THEN counters[key].val ELSE 0

\* calls of user u counted, or about to be, in the current second
Calls(u) ==
    CounterAt(RlKey(u, now))
      + Cardinality({h \in DOMAIN thr : thr[h].key = RlKey(u, now) /\ thr[h].pc = "incr"})

Limited == {u \in DOMAIN users : ~Unlimited(users[u].user_type)}

\* One user at a time is driven past its limit; the others make a few calls.
CallCap(u) ==
    IF \A v \in Limited \ {u} : Calls(v) <= MaxCalls
    THEN API_KEY_QUOTA_get(users[u].user_type) + MaxOver
    ELSE MaxCalls

\* lines 165-174: the tier test, the limit, the clock and the key's name
RlEnter(handlers) ==
    \E u \in DOMAIN users :
        IF Unlimited(users[u].user_type)
        THEN /\ TallyOf(u).adm < MaxCalls
             /\ tally' = Returned(u, now, TRUE, FALSE)
             /\ UNCHANGED <<now, ticks, orgs, users, api_keys, issued, drawn, counters, thr>>
        ELSE /\ Calls(u) < CallCap(u)
             /\ \E h \in handlers \ DOMAIN thr :
                   thr' = thr @@ (h :> [user |-> u,
                                        limit |-> API_KEY_QUOTA_get(users[u].user_type),
                                        now_s |-> now,
                                        key |-> RlKey(u, now),
                                        pc |-> "incr"])
             /\ UNCHANGED <<now, ticks, orgs, users, api_keys, issued, drawn, counters, tally>>

\* lines 176-185: INCR, and the return when the counter was not created by
\* this call
RlIncr(handlers, fails) ==
    \E h \in handlers \cap DOMAIN thr, fail \in fails \cap {"none", "incr"} :
        /\ thr[h].pc = "incr"
        /\ IF fail = "incr"
           THEN /\ thr' = Without(h)
                /\ tally' = Returned(thr[h].user, thr[h].now_s, TRUE, TRUE)
                /\ UNCHANGED counters
           ELSE LET c1 == Incr(counters, thr[h].key)
                    cur == c1[thr[h].key].val
                IN  /\ counters' = c1
                    /\ IF FirstIncrement(cur)
                       THEN /\ thr' = [thr EXCEPT ![h].pc = "expire"]
                            /\ UNCHANGED tally
                       ELSE /\ thr' = Without(h)
                            /\ tally' = Returned(thr[h].user, thr[h].now_s,
                                                 ~OverLimit(cur, thr[h].limit), FALSE)
        /\ UNCHANGED <<now, ticks, orgs, users, api_keys, issued, drawn>>

\* lines 177-185: EXPIRE by the call that created the counter, and its return
RlExpire(handlers, fails) ==
    \E h \in handlers \cap DOMAIN thr, fail \in fails \cap {"none", "expire"} :
        /\ thr[h].pc = "expire"
        /\ thr' = Without(h)
        /\ IF fail = "expire"
           THEN /\ tally' = Returned(thr[h].user, thr[h].now_s, TRUE, TRUE)
                /\ UNCHANGED counters
           ELSE /\ counters' = Expire(counters, thr[h].key, RL_TTL, now)
                /\ tally' = Returned(thr[h].user, thr[h].now_s,
                                     ~OverLimit(1, thr[h].limit), FALSE)
        /\ UNCHANGED <<now, ticks, orgs, users, api_keys, issued, drawn>>

NextRL ==
    \/ Signup(TwoTenants)
    \/ RlEnter(RlHandlers)
    \/ RlIncr(RlHandlers, RedisFailures)
    \/ RlExpire(RlHandlers, RedisFailures)

SpecRL == Init /\ [][NextRL]_vars

\* The table of section 4.5 of the design: requests per second
MaxRate(tier) == IF tier = "NORMAL" THEN 10 ELSE 100

InFlight(u) == {h \in DOMAIN thr : thr[h].key = RlKey(u, now)}

\* C1: for a user with a finite limit L, among the calls made and finished
\* within the current second with Redis answering, never more than L are
\* allowed; and once none is in flight, of the N calls exactly min(N, L) were
\* allowed and the other N - min(N, L) refused.
C1_ExactlyMinAdmitted ==
    \A u \in DOMAIN users :
        (users[u].user_type \in FiniteTiers /\ TallyOf(u).ok) =>
            LET L == MaxRate(users[u].user_type)
                N == TallyOf(u).adm + TallyOf(u).den
            IN  /\ TallyOf(u).adm <= L
                /\ InFlight(u) = {} =>
                      /\ TallyOf(u).adm = Min({N, L})
                      /\ TallyOf(u).den = N - Min({N, L})

\* Past the limit of each finite tier: ten calls allowed and one refused for
\* a NORMAL user, or a hundred and one for a VIP user, none in flight.
C1_Witness ==
    /\ thr = <<>>
    /\ \E u \in DOMAIN users :
          /\ users[u].user_type \in FiniteTiers
          /\ TallyOf(u) = [adm |-> MaxRate(users[u].user_type), den |-> 1, ok |-> TRUE]
          /\ \E v \in DOMAIN users \ {u} : CounterAt(RlKey(v, now)) > 0

\* C2: every call for an ENTERPRISE user is allowed, whatever was counted
\* before and whether or not Redis fails, and the counter store is left as
\* it was; no counter of such a user exists.
C2_UnlimitedBypassesCounters ==
    /\ \A u \in DOMAIN users :
          users[u].user_type = "ENTERPRISE" =>
              /\ TallyOf(u).den = 0
              /\ TallyOf(u).ok
              /\ \A fail \in RedisFailures :
                    rate_limit_check_by_user(counters, u, "ENTERPRISE", now, fail)
                        = RlAllowed(counters)
    /\ \A k \in DOMAIN counters : users[k[2]].user_type # "ENTERPRISE"

\* The ENTERPRISE user has made its calls of the second while others' were
\* being counted.
C2_Witness ==
    /\ TallyOf(1) = [adm |-> MaxCalls, den |-> 0, ok |-> TRUE]
    /\ users[1].user_type = "ENTERPRISE"
    /\ counters # <<>>
    /\ thr # <<>>

-----------------------------------------------------------------------------
\* SpecOrg: tokens replayed after a user's organization was changed.  No
\* handler writes users.org_id; the change is made out of band, by whoever
\* administers the database, to another organization of the orgs table.

UpdateUserOrg ==
    /\ \E u \in DOMAIN users, o \in DOMAIN orgs :
          /\ users[u].org_id # o
          /\ users' = [users EXCEPT ![u].org_id = o]
    /\ UNCHANGED <<now, ticks, orgs, api_keys, issued, drawn, counters, thr, tally>>

NextOrg ==
    \/ Signup(TwoTenants)
    \/ Token(UserNames, {"password", "pw"})
    \/ UpdateUserOrg

SpecOrg == Init /\ [][NextOrg]_vars

\* C11: a signed token whose embedded organization differs from the
\* organization its user has in the store now is answered 401, by the
\* dependency and so by every endpoint behind it.
C11_OrgMismatchRejected ==
    \A t \in issued :
        LET user_id == ToInt(t.sub)
            cred == <<<<>>, Bearer(t)>>
        IN  (user_id \in DOMAIN users /\ users[user_id].org_id # ToInt(t.org)) =>
                /\ get_current_user(cred[1], cred[2]).status = 401
                /\ generate(cred, "none").status = 401
                /\ create_api_key(None, 0, cred, drawn).status = 401
                /\ list_api_keys(cred).status = 401

\* A token of an unexpired signature was issued for one organization and its
\* user now belongs to another; a second token, issued after the change, is
\* accepted.
C11_Witness ==
    /\ \E t \in issued :
          /\ TokenDecodes(t, now)
          /\ users[ToInt(t.sub)].org_id # ToInt(t.org)
          /\ get_current_user(<<>>, Bearer(t)).detail = "org mismatch in token"
    /\ \E t \in issued : get_current_user(<<>>, Bearer(t)).status = 200

-----------------------------------------------------------------------------
\* Key management and credential kinds (checked under Spec)

\* C12: creation, own-key listing and revocation answer 200 only to a request
\* resolved from a token; a request resolved from a raw API key is answered
\* 403 by each of the three, the key table is left as it is and the response
\* carries no key data.
C12_KeyManagementTokenOnly ==
    \A cred \in Credentials :
        LET auth == get_current_user(cred[1], cred[2])
            l == list_api_keys(cred)
        IN  /\ l.status = 200 => auth.auth_type = "jwt"
            /\ (auth.status = 200 /\ auth.auth_type = "api_key") =>
                  l.status = 403 /\ l.out = <<>>
            /\ \A key_id \in KeyIds :
                  LET r == revoke_api_key(key_id, cred)
                  IN  /\ r.status = 200 => auth.auth_type = "jwt"
                      /\ (auth.status = 200 /\ auth.auth_type = "api_key") =>
                            r.status = 403 /\ r.out = <<>> /\ r.api_keys = api_keys
            /\ \A req_scopes \in KeyScopeArgs, expires_days \in ExpiresDays, n \in 0..drawn :
                  LET c == create_api_key(req_scopes, expires_days, cred, n)
                  IN  /\ c.status = 200 => auth.auth_type = "jwt"
                      /\ (auth.status = 200 /\ auth.auth_type = "api_key") =>
                            c.status = 403 /\ c.out = <<>> /\ c.api_keys = api_keys

\* A user under quota presents a live key of its own: the same requests made
\* with the user's token would create a key, list the key and revoke it.
C12_Witness ==
    \E cred \in Credentials, tok \in TokenCredentials :
        LET auth == get_current_user(cred[1], cred[2])
        IN  /\ auth.status = 200
            /\ auth.auth_type = "api_key"
            /\ get_current_user(tok[1], tok[2]).user = auth.user
            /\ create_api_key(None, 0, tok, drawn).status = 200
            /\ list_api_keys(tok).out # <<>>
            /\ revoke_api_key(auth.api, tok).status = 200

\* The plaintexts of the stored keys
StoredPlaintexts ==
    {ClearKey(n) : n \in {m \in 0..drawn : HashTaken(api_keys, hash_key_hmac(ClearKey(m)))}}

\* C13: the plaintext of a stored key is in no column of the store (which
\* holds its keyed hash and its masked preview, both different from it), in no
\* entry of an own-key listing or of an organization listing, and in no
\* response of a later creation, revocation or generation; a creation that
\* answers 200 returns a plaintext that was not stored before, and stores its
\* hash and its preview.
C13_PlaintextOnlyAtCreation ==
    /\ \A i \in DOMAIN api_keys, k \in StoredPlaintexts :
          /\ api_keys[i].key_hash # k
          /\ api_keys[i].key_preview # k
          /\ api_keys[i].scopes # k
    /\ \A cred \in Credentials :
          /\ \A j \in DOMAIN list_api_keys(cred).out :
                list_api_keys(cred).out[j].key \notin StoredPlaintexts
          /\ \A org_id \in OrgIds :
                \A j \in DOMAIN list_org_keys(org_id, cred).out :
                    list_org_keys(org_id, cred).out[j].key_preview \notin StoredPlaintexts
          /\ \A key_id \in KeyIds : revoke_api_key(key_id, cred).out \notin StoredPlaintexts
          /\ generate(cred, "none").out \notin StoredPlaintexts
          /\ \A n \in 0..drawn :
                LET c == create_api_key(None, 0, cred, n)
                    row == c.api_keys[Len(c.api_keys)]
                IN  /\ c.status = 200 =>
                         /\ c.out.key = ClearKey(n)
                         /\ c.out.key \notin StoredPlaintexts
                         /\ Len(c.api_keys) = Len(api_keys) + 1
                         /\ row.key_hash = hash_key_hmac(c.out.key)
                         /\ row.key_preview # c.out.key
                    /\ c.status # 200 => c.out = <<>>

\* Keys are stored and both listings return them: the owner's listing and
\* the organization's listing asked by its administrator.
C13_Witness ==
    /\ StoredPlaintexts # {}
    /\ \E cred \in Credentials : list_api_keys(cred).out # <<>>
    /\ \E cred \in Credentials, org_id \in OrgIds : list_org_keys(org_id, cred).out # <<>>

-----------------------------------------------------------------------------
\* SpecMask: mask_key on its own.  A handler calls it with a secret of up to
\* MaxSecretLen characters, among them the star of the marker, and gets the
\* preview back.

SecretChars == {"k", "*"}

Secrets == UNION {[1..n -> SecretChars] : n \in 0..MaxSecretLen}

CallMask ==
    /\ thr = <<>>
    /\ \E key \in Secrets : thr' = ("h1" :> [key |-> key, pc |-> "mask_key"])
    /\ UNCHANGED <<now, ticks, orgs, users, api_keys, issued, drawn, counters, tally>>

ReturnMask ==
    /\ "h1" \in DOMAIN thr
    /\ thr["h1"].pc = "mask_key"
    /\ thr' = ("h1" :> [key |-> thr["h1"].key, pc |-> "done",
                        preview |-> mask_key(thr["h1"].key)])
    /\ UNCHANGED <<now, ticks, orgs, users, api_keys, issued, drawn, counters, tally>>

NextMask == CallMask \/ ReturnMask

SpecMask == Init /\ [][NextMask]_vars

Masked(h) == thr[h].pc = "done"

\* C14: the preview of a secret longer than 9 characters is its first 5
\* characters, the marker of four stars and its last 4 characters; the
\* preview of a secret of 9 characters or fewer, the empty one included, is
\* the secret itself.
C14_MaskShape ==
    \A h \in DOMAIN thr :
        Masked(h) =>
            LET key == thr[h].key
                preview == thr[h].preview
            IN  IF Len(key) > 9
                THEN /\ Len(preview) = 13
                     /\ \A i \in 1..5 : preview[i] = key[i]
                     /\ \A i \in 6..9 : preview[i] = "*"
                     /\ \A i \in 1..4 : preview[9 + i] = key[Len(key) - 4 + i]
                ELSE preview = key

\* Secrets at both sides of the boundary have been masked: this state holds
\* one of length 10 or more whose preview differs from it.
C14_Witness ==
    \E h \in DOMAIN thr :
        /\ Masked(h)
        /\ Len(thr[h].key) >= 10
        /\ thr[h].preview # thr[h].key
        /\ thr[h].key[6] = "k"

-----------------------------------------------------------------------------
\* Token expiry (checked under Spec, whose clock steps by a second, by the
\* life of a token and by a day)

\* C15: a signed token presented at its expiry time or later is answered
\* 401, the instant of expiry included.
C15_RejectedFromExpiryOn ==
    \A t \in issued :
        now >= t.exp => get_current_user(<<>>, Bearer(t)).status = 401

-----------------------------------------------------------------------------
\* Credential priority (checked under Spec)

\* the stored key a header value stands for, if it is live
LiveKeyOf(x_api_key) ==
    {i \in DOMAIN api_keys :
        /\ api_keys[i].key_hash = hash_key_hmac(x_api_key)
        /\ ~api_keys[i].revoked
        /\ ~(api_keys[i].expires_at # None /\ api_keys[i].expires_at[1] < now)}

\* C16: with a raw key in the request the answer is the one the key alone
\* gets, whatever Authorization header accompanies it: a key that is unknown,
\* revoked or expired is answered 401 even beside a valid token, and a live
\* key resolves as an api_key credential; without a key the Authorization
\* header decides and resolves, if at all, as a token credential; without
\* either the answer is 401.
C16_KeyPathFirst ==
    /\ \A k \in KeyHeaders, a \in TokenHeaders \cup {<<>>} :
          /\ get_current_user(k, a) = get_current_user(k, <<>>)
          /\ LiveKeyOf(k) = {} => get_current_user(k, a).status = 401
          /\ LiveKeyOf(k) # {} =>
                /\ get_current_user(k, a).status = 200
                /\ get_current_user(k, a).auth_type = "api_key"
                /\ get_current_user(k, a).api \in LiveKeyOf(k)
    /\ \A a \in TokenHeaders :
          get_current_user(<<>>, a).status = 200 =>
              get_current_user(<<>>, a).auth_type = "jwt"
    /\ get_current_user(<<>>, <<>>).status = 401
    /\ get_current_user(<<>>, <<>>).detail = "No authentication provided"

\* A revoked key, an expired key or an unknown one is presented beside a
\* token that is valid on its own; and a live key of one user is presented
\* beside another user's valid token.
C16_Witness ==
    /\ \E k \in KeyHeaders, a \in TokenHeaders :
          /\ \E i \in DOMAIN api_keys : api_keys[i].key_hash = hash_key_hmac(k)
          /\ LiveKeyOf(k) = {}
          /\ get_current_user(<<>>, a).status = 200
          /\ get_current_user(k, a).status = 401
    /\ \E k \in KeyHeaders, a \in TokenHeaders :
          /\ get_current_user(<<>>, a).status = 200
          /\ get_current_user(k, a).status = 200
          /\ get_current_user(k, a).user # get_current_user(<<>>, a).user

-----------------------------------------------------------------------------
\* Revocation and ownership (checked under Spec)

\* C17: a revocation asked with a token for a key id that does not exist or
\* is another user's is answered 404 and changes no row; and whatever the
\* credential and the id, the only revoked flag a revocation changes is the
\* one of a key of the requesting user.
C17_RevokeOwnKeysOnly ==
    \A cred \in Credentials, key_id \in KeyIds :
        LET auth == get_current_user(cred[1], cred[2])
            r == revoke_api_key(key_id, cred)
        IN  /\ ( /\ auth.status = 200
                 /\ auth.auth_type = "jwt"
                 /\ (key_id \notin DOMAIN api_keys \/ api_keys[key_id].user_id # auth.user) ) =>
                    /\ r.status = 404
                    /\ r.api_keys = api_keys
            /\ DOMAIN r.api_keys = DOMAIN api_keys
            /\ \A i \in DOMAIN api_keys :
                  r.api_keys[i] # api_keys[i] =>
                      /\ auth.status = 200
                      /\ api_keys[i].user_id = auth.user
                      /\ i = key_id

\* Two users hold a live key each, and one of them asks, with a valid token,
\* to revoke the other's.
C17_Witness ==
    \E cred \in TokenCredentials, key_id \in DOMAIN api_keys :
        LET auth == get_current_user(cred[1], cred[2])
        IN  /\ auth.status = 200
            /\ api_keys[key_id].user_id # auth.user
            /\ ~api_keys[key_id].revoked
            /\ \E i \in DOMAIN api_keys : api_keys[i].user_id = auth.user
            /\ revoke_api_key(key_id, cred).status = 404

-----------------------------------------------------------------------------
\* Counting (checked under SpecRL)

\* calls of user u whose INCR was done and which have not returned yet
Counted(u) == {h \in InFlight(u) : thr[h].pc = "expire"}

\* C18: for a user with a finite limit, a call whose INCR reaches Redis adds
\* exactly one to the counter of the user's second, whether it is then
\* allowed or refused; a refusal carries the tier's limit and the value after
\* the increment, which is over the limit; and the counter equals the number
\* of the second's calls that were counted.
C18_CountedThenCompared ==
    \A u \in DOMAIN users :
        users[u].user_type \in FiniteTiers =>
            LET key == RlKey(u, now)
                L == MaxRate(users[u].user_type)
            IN  /\ \A fail \in {"none", "expire"} :
                      LET r == rate_limit_check_by_user(counters, u, users[u].user_type,
                                                        now, fail)
                      IN  /\ r.counters[key].val = CounterAt(key) + 1
                          /\ \A k \in DOMAIN counters \ {key} : r.counters[k] = counters[k]
                          /\ ~r.allowed =>
                                /\ r.info = Some([limit |-> L, current |-> CounterAt(key) + 1])
                                /\ r.info[1].current > r.info[1].limit
                          /\ (r.allowed /\ fail = "none") => CounterAt(key) + 1 <= L
                /\ TallyOf(u).ok =>
                      CounterAt(key)
                        = TallyOf(u).adm + TallyOf(u).den + Cardinality(Counted(u))

\* A user's counter stands past the limit after as many calls, one of them
\* refused, and the next call would be counted and refused too.
C18_Witness ==
    \E u \in DOMAIN users :
        /\ users[u].user_type \in FiniteTiers
        /\ TallyOf(u).ok
        /\ TallyOf(u).den = 1
        /\ CounterAt(RlKey(u, now)) = MaxRate(users[u].user_type) + 1
        /\ ~rate_limit_check_by_user(counters, u, users[u].user_type, now, "none").allowed

-----------------------------------------------------------------------------
\* SpecTTL: the life of the counters.  Calls are made during the first
\* MaxTicks seconds, a few per second; a handler may stop between INCR and
\* EXPIRE (its process is killed, its connection is lost); Redis may fail at
\* either call.  The clock goes on after the last call for as long as a
\* counter with a time-to-live is left; beyond that, the passing of time
\* changes nothing.  The clock always advances, and a handler that is not
\* stopped goes on to its next call.

\* The handler stops after INCR (line 176), before EXPIRE (line 179).
RlStop(handlers) ==
    /\ \E h \in handlers \cap DOMAIN thr :
          /\ thr[h].pc = "expire"
          /\ thr' = Without(h)
          /\ tally' = Returned(thr[h].user, thr[h].now_s, TRUE, TRUE)
    /\ UNCHANGED <<now, ticks, orgs, users, api_keys, issued, drawn, counters>>

\* Seconds after the last call: Redis drops the counters as they expire.
Drain ==
    /\ ticks >= MaxTicks
    /\ thr = <<>>
    /\ \E k \in DOMAIN counters : counters[k].exp # None
    /\ now' = now + 1
    /\ counters' = Purge(counters, now + 1)
    /\ ticks' = ticks + 1
    /\ tally' = <<>>
    /\ UNCHANGED <<orgs, users, api_keys, issued, drawn, thr>>

NextTTL ==
    \/ Signup(TwoTenants)
    \/ (ticks < MaxTicks /\ (\A u \in Limited : Calls(u) < MaxCalls) /\ RlEnter(RlHandlers))
    \/ RlIncr(RlHandlers, RedisFailures)
    \/ RlExpire(RlHandlers, RedisFailures)
    \/ RlStop(RlHandlers)
    \/ Tick({1}, MaxTicks)
    \/ Drain

SpecTTL ==
    /\ Init
    /\ [][NextTTL]_vars
    /\ WF_vars(Tick({1}, MaxTicks))
    /\ WF_vars(Drain)
    /\ WF_vars(RlIncr(RlHandlers, RedisFailures))
    /\ WF_vars(RlExpire(RlHandlers, RedisFailures))

\* C19: every counter entry is eventually removed.
C19_EveryCounterRemoved ==
    \A u \in 1..MaxOrgs, t \in 0..MaxTicks :
        (RlKey(u, t) \in DOMAIN counters) ~> (RlKey(u, t) \notin DOMAIN counters)

-----------------------------------------------------------------------------
\* Redis failures (checked under SpecGate)

\* the Redis call named by fail is made, and so fails, for this user now
FailureHits(u, fail) ==
    \/ fail = "incr"
    \/ fail = "expire" /\ CounterAt(RlKey(u, now)) = 0

\* C20: when INCR or EXPIRE raises a Redis error during the call for a user
\* with a finite limit, the rate limiter allows the call, whatever the
\* counter holds; POST /generate then never answers 429: it answers what
\* the scope test alone decides.
C20_FailOpen ==
    \A cred \in Credentials, fail \in {"incr", "expire"} :
        LET auth == get_current_user(cred[1], cred[2])
            g == generate(cred, fail)
        IN  ( /\ auth.status = 200
              /\ users[auth.user].user_type \in FiniteTiers
              /\ FailureHits(auth.user, fail) ) =>
                /\ Limiter(auth, fail).allowed
                /\ Limiter(auth, fail).info = None
                /\ g.status # 429
                /\ g.status = IF "generate:text" \in EffectiveScopes(auth) THEN 200 ELSE 403

\* A user has used up the second: the next request is answered 429 when
\* Redis answers and 200 when INCR raises.
C20_Witness ==
    \E cred \in Credentials :
        /\ generate(cred, "none").status = 429
        /\ generate(cred, "incr").status = 200

-----------------------------------------------------------------------------
\* SpecExpiry: keys created with and without an expiry, used before, at and
\* after it.  The clock steps by a second or by a day, one step more than in
\* the other specifications, so that a key of one day is outlived.

NextExpiry ==
    \/ Signup(OneTenant)
    \/ Token({"alice"}, {"pw"})
    \/ CreateKey({None}, {0, 1}, TokenCredentials, MaxKeys)
    \/ RevokeKey(TokenCredentials)
    \/ Tick({1, SECONDS_PER_DAY}, MaxTicks + 1)

SpecExpiry == Init /\ [][NextExpiry]_vars

\* C21: a key that is not revoked resolves when it has no expiry or the
\* current time is not past its expiry, and is answered 401 'API key
\* expired' at every use once the current time is past it; and no step
\* removes a key row or changes one otherwise than by revoking it: the
\* passing of time changes none.
C21_ExpiryAtUseOnly ==
    /\ [](\A i \in DOMAIN api_keys :
            ~api_keys[i].revoked =>
                \A cred \in Presenting(i) :
                    LET auth == get_current_user(cred[1], cred[2])
                        a == api_keys[i]
                    IN  IF a.expires_at # None /\ now > a.expires_at[1]
                        THEN auth.status = 401 /\ auth.detail = "API key expired"
                        ELSE auth.status = 200 /\ auth.api = i)
    /\ [][ /\ \A i \in DOMAIN api_keys :
                /\ i \in DOMAIN api_keys'
                /\ api_keys'[i] = api_keys[i] \/ api_keys'[i] = Revoked(api_keys[i])
           /\ now' # now => api_keys' = api_keys ]_vars

\* A key created for one day is still stored, unrevoked, after its expiry
\* has passed, beside a key without expiry that resolves.
C21_Witness ==
    /\ \E i \in DOMAIN api_keys :
          /\ ~api_keys[i].revoked
          /\ api_keys[i].expires_at # None
          /\ api_keys[i].expires_at[1] >= SECONDS_PER_DAY
          /\ now > api_keys[i].expires_at[1]
          /\ Presenting(i) # {}
    /\ \E i \in DOMAIN api_keys :
          /\ api_keys[i].expires_at = None
          /\ \E cred \in Presenting(i) : get_current_user(cred[1], cred[2]).status = 200

-----------------------------------------------------------------------------
\* lines 56-60: every scope named by DEFAULT_SCOPES
ScopeCatalog == {"generate:text", "generate:image", "tts", "generate:video", "admin"}

\* C22: every stored key's scopes are scopes of the catalog, whatever
\* scopes the caller supplied at creation.
C22_StoredScopesInCatalog ==
    \A i \in DOMAIN api_keys : Range(Split(api_keys[i].scopes)) \subseteq ScopeCatalog

-----------------------------------------------------------------------------
\* SpecSignup: every signup request over the names, colliding ones included.

NextSignup ==
    \/ Signup(SignupReqs)
    \/ Token(UserNames, LoginPasswords)

SpecSignup == Init /\ [][NextSignup]_vars

C28_RefusedSignupLeavesStore ==
    /\ \A o \in DOMAIN orgs : \E u \in DOMAIN users : users[u].org_id = o
    /\ \A r \in SignupReqs :
          (/\ UserByName(r[2]) = 0
           /\ \A u \in DOMAIN users : orgs[users[u].org_id].name # r[1])
          => signup(r[1], r[2], r[3], r[4], r[5]).status = 200

-----------------------------------------------------------------------------
\* C24: a listing of one's own keys holds only keys whose user_id is the
\* caller's; a listing of an organization's keys is answered 200, with keys
\* of that organization only, when the caller belongs to the organization
\* asked for and is an administrator, and 403 with no key otherwise.
C24_ListingsStayInTenant ==
    \A cred \in Credentials :
        /\ LET l == list_api_keys(cred)
           IN  l.status = 200 =>
                   \A j \in DOMAIN l.out :
                       /\ l.out[j].user_id = l.auth.user
                       /\ api_keys[l.out[j].id].user_id = l.auth.user
        /\ \A org_id \in OrgIds :
              LET o == list_org_keys(org_id, cred)
              IN  o.auth.status = 200 =>
                      IF /\ users[o.auth.user].org_id = org_id
                         /\ users[o.auth.user].is_admin
                      THEN /\ o.status = 200
                           /\ \A j \in DOMAIN o.out :
                                  api_keys[o.out[j].id].org_id = org_id
                      ELSE o.status = 403 /\ o.out = <<>>

\* An administrator is shown a key of their own organization and is
\* refused another organization that holds a key, and a user lists their
\* own key while another user's key is stored.
C24_Witness ==
    /\ \E cred \in Credentials, org_id \in OrgIds :
          /\ list_org_keys(org_id, cred).status = 200
          /\ list_org_keys(org_id, cred).out # <<>>
          /\ \E other \in OrgIds, i \in DOMAIN api_keys :
                /\ other # org_id
                /\ api_keys[i].org_id = other
                /\ list_org_keys(other, cred).status = 403
    /\ \E cred \in Credentials :
          /\ list_api_keys(cred).status = 200
          /\ list_api_keys(cred).out # <<>>
          /\ \E i \in DOMAIN api_keys :
                api_keys[i].user_id # list_api_keys(cred).auth.user

-----------------------------------------------------------------------------
\* C25: the counter of a request is that of its user and second, whichever
\* credential carried it: two credentials of one user leave the same
\* counters and are throttled together, every counter is named by a user id
\* and a second, and while Redis answers a request of a user with a finite
\* limit is admitted exactly when fewer than the limit were counted for the
\* user in this second, so that no more than the limit are admitted however
\* many keys the user holds.
C25_OneCounterPerUser ==
    /\ \A k \in DOMAIN counters :
          \E u \in DOMAIN users, t \in 0..now : k = RlKey(u, t)
    /\ \A c1 \in Credentials :
          LET a1 == get_current_user(c1[1], c1[2])
          IN  a1.status = 200 =>
                 /\ \A c2 \in Credentials, fail \in RedisFailures :
                       get_current_user(c2[1], c2[2]).status = 200
                       /\ get_current_user(c2[1], c2[2]).user = a1.user
                       => /\ generate(c1, fail).counters = generate(c2, fail).counters
                          /\ generate(c1, fail).status = 429
                                <=> generate(c2, fail).status = 429
                 /\ users[a1.user].user_type \in FiniteTiers =>
                       /\ generate(c1, "none").status # 429
                             <=> CounterAt(RlKey(a1.user, now)) < MaxRate(users[a1.user].user_type)
                       /\ generate(c1, "none").counters[RlKey(a1.user, now)].val
                             = CounterAt(RlKey(a1.user, now)) + 1

\* A user holds a token and a key that both resolve, has used up the second,
\* and is throttled through either.
C25_Witness ==
    \E c1, c2 \in Credentials :
        LET a1 == get_current_user(c1[1], c1[2])
            a2 == get_current_user(c2[1], c2[2])
        IN  /\ a1.status = 200 /\ a2.status = 200
            /\ a1.user = a2.user
            /\ a1.auth_type = "jwt" /\ a2.auth_type = "api_key"
            /\ CounterAt(RlKey(a1.user, now)) >= MaxRate(users[a1.user].user_type)
            /\ generate(c1, "none").status = 429
            /\ generate(c2, "none").status = 429

-----------------------------------------------------------------------------
\* SpecFrame: calls of several users over several seconds, a call's INCR
\* and EXPIRE possibly falling in a later second than its reading of the
\* clock.  One user is driven past its limit in the first second, and an
\* EXPIRE that fails leaves a counter without time-to-live.

NextFrame ==
    \/ Signup(TwoTenants)
    \/ (/\ \A u \in Limited :
              Calls(u) < (IF users[u].user_type = "NORMAL" /\ now = 0
                          THEN QUOTA_NORMAL + MaxOver ELSE MaxCalls)
        /\ RlEnter(RlHandlers))
    \/ RlIncr(RlHandlers, {"none"})
    \/ RlExpire(RlHandlers, {"none", "expire"})
    \/ Tick({1}, MaxTicks)

SpecFrame == Init /\ [][NextFrame]_vars

\* C26: the rate limiter's answer for a user is the one it gives when the
\* counter of that user and second is the only one, and the call changes no
\* other counter; the counter of a user and a second changes only by the
\* INCR of a call of that user that read that second, by one, and does not
\* decrease or disappear while that second lasts.
C26_CounterFrame ==
    /\ [](\A u \in Limited :
            LET key == RlKey(u, now)
                alone == [k \in DOMAIN counters \cap {key} |-> counters[k]]
                r == rate_limit_check_by_user(counters, u, users[u].user_type, now, "none")
                r1 == rate_limit_check_by_user(alone, u, users[u].user_type, now, "none")
            IN  /\ r.allowed = r1.allowed
                /\ r.info = r1.info
                /\ r.allowed <=> CounterAt(key) < API_KEY_QUOTA_get(users[u].user_type)
                /\ \A k \in DOMAIN counters \ {key} :
                      k \in DOMAIN r.counters /\ r.counters[k] = counters[k])
    /\ [][\A u \in DOMAIN users, t \in 0..now :
            LET before == CounterAt(RlKey(u, t))
                after == IF RlKey(u, t) \in DOMAIN counters'
                         THEN counters'[RlKey(u, t)].val ELSE 0
            IN  /\ after < before => now' > t
                /\ after > before =>
                      /\ after = before + 1
                      /\ \E h \in DOMAIN thr :
                            /\ thr[h].user = u
                            /\ thr[h].now_s = t
                            /\ thr[h].pc = "incr"
                            /\ h \notin DOMAIN thr' \/ thr'[h].pc = "expire"]_vars

\* Two users have counters of the same second, one of them a counter of an
\* earlier second too, and the other is past its limit.
C26_Witness ==
    \E u, v \in Limited, t \in 0..now :
        /\ u # v
        /\ t < now
        /\ RlKey(u, t) \in DOMAIN counters
        /\ RlKey(v, t) \in DOMAIN counters
        /\ RlKey(u, now) \in DOMAIN counters
        /\ counters[RlKey(v, t)].val > API_KEY_QUOTA_get(users[v].user_type)

-----------------------------------------------------------------------------
\* SpecStale: keys of one day, created before and after a step of two days
\* of the clock, so that a user holds expired keys beside fresh ones.

NextStale ==
    \/ Signup(OneTenant)
    \/ Token({"alice"}, {"pw"})
    \/ CreateKey({None}, {1}, TokenCredentials, QuotaCap)
    \/ RevokeKey(TokenCredentials)
    \/ Tick({2 * SECONDS_PER_DAY}, MaxTicks)

SpecStale == Init /\ [][NextStale]_vars

\* C27: keys that are not revoked count toward the maximum whether expired
\* or not: for a user of a tier with a finite maximum, a creation is refused
\* for quota exactly when the keys not revoked, expired ones included,
\* number the maximum or more, and succeeds otherwise (as after revoking
\* one).
C27_ExpiredKeysCount ==
    \A cred \in TokenCredentials :
        LET auth == get_current_user(cred[1], cred[2])
            s == create_api_key(None, 1, cred, drawn)
        IN  (auth.status = 200 /\ users[auth.user].user_type \in FiniteTiers) =>
              LET kept == {i \in DOMAIN api_keys :
                              api_keys[i].user_id = auth.user /\ ~api_keys[i].revoked}
              IN  IF Cardinality(kept) >= MaxLiveKeys(users[auth.user].user_type)
                  THEN /\ s.status = 403
                       /\ s.detail = "API key quota exceeded"
                       /\ s.api_keys = api_keys
                  ELSE /\ s.status = 200
                       /\ Len(s.api_keys) = Len(api_keys) + 1

\* The user holds the maximum of keys not revoked, expired ones among
\* them, and is refused a new key, after a key was revoked and another
\* created in its place.
C27_Witness ==
    \E cred \in TokenCredentials :
        /\ create_api_key(None, 1, cred, drawn).status = 403
        /\ Cardinality(Live(2)) = MaxLiveKeys("NORMAL")
        /\ \E i \in Live(2) : KeyExpired(api_keys[i], now)
        /\ \E i \in Live(2) : ~KeyExpired(api_keys[i], now)
        /\ \E i \in DOMAIN api_keys : api_keys[i].revoked

====
